---- MODULE Spec2Model ----
(***************************************************************************)
(* Cache-aside product API of src/main.py: get_product reads through a     *)
(* Redis cache in front of PRODUCTS_DB, update_product writes the store    *)
(* and schedules invalidate_cache as a background task.                    *)
(*                                                                         *)
(* Every handler is a coroutine; one action models the code that runs      *)
(* between two awaits.  The effect of an awaited Redis command (ping, get, *)
(* set, delete) happens in the step that resumes the coroutine, and the    *)
(* command raises exactly when the backend is unreachable in that step.    *)
(* Optional[T] values are sequences: None is <<>>, a value x is <<x>>.     *)
(* Prices are floats in the source; they are modelled by integers, whose   *)
(* JSON text round-trips exactly like the repr of a Python float.          *)
(***************************************************************************)
EXTENDS Integers, Sequences, FiniteSets, TLC

\* ----- bounds of the model -----
NumTasks == 2
\* requests accepted during one run
MaxRequests == 3
\* requested identifiers are LastStoredId..MaxId: the last product of PRODUCTS_DB
\* and the identifiers past it, which the store lacks
MaxId == 4

\* ----- program constants -----
CACHE_TTL == 60
LastStoredId == 3

None == <<>>
Some(x) == <<x>>

Tasks == 1..NumTasks
ProductIds == LastStoredId..MaxId
\* values a client may send in a ProductUpdate body; "" and 0 are falsy in Python
UpdateNames == {None, Some("Tablet")}
UpdatePrices == {None, Some(0), Some(550)}
ProductUpdate == [name : UpdateNames, price : UpdatePrices]

VARIABLES
  phase,          \* "init" before on_startup, "running", "stopped" after on_shutdown
  redis,          \* the global handle: None or Some("conn")
  backendUp,      \* whether the Redis server answers commands right now
  backendEverUp,  \* history: the Redis server was reachable at some point of the run
  PRODUCTS_DB,    \* dict: product id -> record
  cache,          \* the Redis keyspace: key -> [value, ex]
  pc,             \* per request slot: where its coroutine is suspended
  handler,        \* per request slot: "none", "get_product" or "update_product"
  product_id,     \* per request slot: the path parameter
  update,         \* per request slot: the ProductUpdate body
  redis_conn,     \* per request slot: local redis_conn of the handler
  prod,           \* per request slot: local prod of get_product
  response,       \* per request slot: what the client received
  nreq,           \* requests accepted so far
  history,        \* history: per id, every record PRODUCTS_DB has held
  lastUpdate,     \* history: per id, 0 = never updated, t = slot t wrote last and
                  \* its invalidation has not completed, Settled = it has completed
  afterInv,       \* history: per slot, the fetch began after the last update of its
                  \* id returned and was invalidated, and no update wrote the id since
  backendHung,    \* the Redis server accepts commands and never answers them
  lastMerged,     \* history: per id, the record the last update of the id returned
  afterWrite,     \* history: per slot, the record returned by the last update of
                  \* the fetch's id, when it had returned before the fetch began
                  \* and no update wrote the id since
  afterExpiry     \* history: per slot, the fetch began with no entry cached for its
                  \* id and no update of it awaiting its store write, and no update
                  \* of the id was issued since

vars == <<phase, redis, backendUp, backendEverUp, PRODUCTS_DB, cache, pc, handler,
          product_id, update, redis_conn, prod, response, nreq, history,
          lastUpdate, afterInv, backendHung, lastMerged, afterWrite, afterExpiry>>

Settled == 0 - 1

\* ----- pydantic models and JSON -----
\* Product(**data): the three fields of a dict, extra keys ignored; a missing field
\* is a ValidationError
ProductValid(data) == {"id", "name", "price"} \subseteq DOMAIN data
Product(data) == [id |-> data["id"], name |-> data["name"], price |-> data["price"]]

\* variant: the price member is written without its value
JsonDumps_price_lost(d) ==
  << <<"id", d["id"]>>, <<"name", d["name"]>>, <<"price", 0>> >>

\* json.dumps of a product dict: the text, as its sequence of key/value members
JsonDumps(d) == << <<"id", d["id"]>>, <<"name", d["name"]>>, <<"price", d["price"]>> >>

\* json.loads: the text parses when every member is a key/value pair
JsonValid(s) == \A i \in 1..Len(s) : Len(s[i]) = 2
JsonLoads(s) ==
  LET keys == {s[i][1] : i \in 1..Len(s)}
      last(k) == CHOOSE i \in 1..Len(s) :
                   /\ s[i][1] = k
                   /\ \A j \in 1..Len(s) : s[j][1] = k => j <= i
  IN [k \in keys |-> s[last(k)][2]]

\* payloads a damaged entry may hold: the empty string, text that is no JSON, and
\* JSON of another schema (the price member lost)
EmptyText == <<>>
NotJson == << <<"{">> >>
Truncated(s) == IF Len(s) > 1 /\ JsonValid(s) THEN SubSeq(s, 1, Len(s) - 1) ELSE NotJson

\* ----- responses -----
NoResponse == [status |-> 0, body |-> None]
Ok(p) == [status |-> 200, body |-> Some(p)]
NotFound == [status |-> 404, body |-> None]
InternalError == [status |-> 500, body |-> None]

\* ----- helper functions of the source -----
\* variant: one key for every product
_product_cache_key_shared(id) == <<"product:", 0>>

_product_cache_key(id) == <<"product:", id>>

\* dict.get
get_product_from_db(id) ==
  IF id \in DOMAIN PRODUCTS_DB THEN Some(PRODUCTS_DB[id]) ELSE None

\* get_redis_connection: the handle when it is set and answers the ping
get_redis_connection == IF redis # None /\ backendUp THEN redis ELSE None

\* redis.get / set / delete on a reachable backend
RedisGet(key) == IF key \in DOMAIN cache THEN Some(cache[key].value) ELSE None
RedisSet(key, value, ex) ==
  [k \in DOMAIN cache \cup {key} |->
     IF k = key THEN [value |-> value, ex |-> ex] ELSE cache[k]]
RedisDelete(key) == [k \in DOMAIN cache \ {key} |-> cache[k]]

\* "if cached:": None and the empty string are falsy
Truthy(cached) == cached # None /\ cached[1] # EmptyText

\* the try block of get_product on a cached text: the Product, or None when
\* json.loads or Product(**data) raises
FromCache(cached) ==
  IF ~JsonValid(cached) THEN None
  ELSE IF ~ProductValid(JsonLoads(cached)) THEN None
  ELSE Some(Product(JsonLoads(cached)))

\* variant: the merged copy is never filled in
ApplyUpdate_unapplied(existing, upd) == existing

\* variant: "if update.price:" instead of "is not None", so a falsy value is skipped
ApplyUpdate_truthy(existing, upd) ==
  [id |-> existing.id,
   name |-> IF upd.name # None /\ upd.name[1] # "" THEN upd.name[1] ELSE existing.name,
   price |-> IF upd.price # None /\ upd.price[1] # 0 THEN upd.price[1]
             ELSE existing.price]

\* variant: "elif update.price is not None": the price is skipped when a name is given
ApplyUpdate_first_field_only(existing, upd) ==
  [id |-> existing.id,
   name |-> IF upd.name # None THEN upd.name[1] ELSE existing.name,
   price |-> IF upd.name = None /\ upd.price # None THEN upd.price[1]
             ELSE existing.price]

\* "Apply updates": only the provided fields replace those of a copy of existing
ApplyUpdate(existing, upd) ==
  [id |-> existing.id,
   name |-> IF upd.name # None THEN upd.name[1] ELSE existing.name,
   price |-> IF upd.price # None THEN upd.price[1] ELSE existing.price]

\* the dict literal the module starts with
PRODUCTS_DB_initial ==
  [i \in 1..LastStoredId |->
     IF i = 1 THEN [id |-> 1, name |-> "Laptop", price |-> 1000]
     ELSE IF i = 2 THEN [id |-> 2, name |-> "Smartphone", price |-> 500]
     ELSE [id |-> 3, name |-> "Headphones", price |-> 100]]

Init ==
  /\ phase = "init"
  /\ redis = None
  /\ backendUp \in BOOLEAN
  /\ backendEverUp = backendUp
  /\ PRODUCTS_DB = PRODUCTS_DB_initial
  /\ cache = <<>>
  /\ pc = [t \in Tasks |-> "idle"]
  /\ handler = [t \in Tasks |-> "none"]
  /\ product_id = [t \in Tasks |-> 0]
  /\ update = [t \in Tasks |-> None]
  /\ redis_conn = [t \in Tasks |-> None]
  /\ prod = [t \in Tasks |-> None]
  /\ response = [t \in Tasks |-> NoResponse]
  /\ nreq = 0
  /\ history = [i \in ProductIds |->
       IF i \in 1..LastStoredId THEN {PRODUCTS_DB[i]} ELSE {}]
  /\ lastUpdate = [i \in ProductIds |-> 0]
  /\ afterInv = [t \in Tasks |-> FALSE]
  /\ backendHung = FALSE
  /\ lastMerged = [i \in ProductIds |-> None]
  /\ afterWrite = [t \in Tasks |-> None]
  /\ afterExpiry = [t \in Tasks |-> FALSE]

\* ----- the Redis server and its network -----
BackendFail ==
  /\ backendUp
  /\ ~backendHung
  /\ backendUp' = FALSE
  /\ UNCHANGED <<phase, redis, backendEverUp, PRODUCTS_DB, cache, pc, handler,
                 product_id, update, redis_conn, prod, response, nreq, history,
                 lastUpdate, afterInv, backendHung, lastMerged, afterWrite, afterExpiry>>

BackendRecover ==
  /\ ~backendUp
  /\ ~backendHung
  /\ backendUp' = TRUE
  /\ backendEverUp' = TRUE
  /\ UNCHANGED <<phase, redis, PRODUCTS_DB, cache, pc, handler,
                 product_id, update, redis_conn, prod, response, nreq, history,
                 lastUpdate, afterInv, backendHung, lastMerged, afterWrite, afterExpiry>>

\* from now on the server takes commands and sends no reply: the coroutine that
\* awaits one is never resumed, since no call of the source sets a timeout
BackendHang ==
  /\ backendUp
  /\ ~backendHung
  /\ backendHung' = TRUE
  /\ UNCHANGED <<phase, redis, backendUp, backendEverUp, PRODUCTS_DB, cache, pc,
                 handler, product_id, update, redis_conn, prod, response, nreq,
                 history, lastUpdate, afterInv, lastMerged, afterWrite, afterExpiry>>

\* the entry's ex seconds have passed
Expire(key) ==
  /\ key \in DOMAIN cache
  /\ cache' = RedisDelete(key)
  /\ UNCHANGED <<phase, redis, backendUp, backendEverUp, PRODUCTS_DB, pc, handler,
                 product_id, update, redis_conn, prod, response, nreq, history,
                 lastUpdate, afterInv, backendHung, lastMerged, afterWrite, afterExpiry>>

\* an entry's payload is damaged
Corrupt(key) ==
  /\ key \in DOMAIN cache
  /\ \E junk \in {EmptyText, NotJson, Truncated(cache[key].value)} :
       /\ junk # cache[key].value
       /\ cache' = [cache EXCEPT ![key].value = junk]
  /\ UNCHANGED <<phase, redis, backendUp, backendEverUp, PRODUCTS_DB, pc, handler,
                 product_id, update, redis_conn, prod, response, nreq, history,
                 lastUpdate, afterInv, backendHung, lastMerged, afterWrite, afterExpiry>>

\* ----- process lifecycle -----
\* variant: the except branch does not reset the handle
on_startup_keeps_handle ==
  /\ phase = "init"
  /\ ~backendHung
  /\ phase' = "running"
  /\ redis' = Some("conn")
  /\ UNCHANGED <<backendUp, backendEverUp, PRODUCTS_DB, cache, pc, handler,
                 product_id, update, redis_conn, prod, response, nreq, history,
                 lastUpdate, afterInv, backendHung, lastMerged, afterWrite, afterExpiry>>

on_startup ==
  /\ phase = "init"
  /\ ~backendHung
  /\ phase' = "running"
  /\ redis' = IF backendUp THEN Some("conn") ELSE None
  /\ UNCHANGED <<backendUp, backendEverUp, PRODUCTS_DB, cache, pc, handler,
                 product_id, update, redis_conn, prod, response, nreq, history,
                 lastUpdate, afterInv, backendHung, lastMerged, afterWrite, afterExpiry>>

on_shutdown ==
  /\ phase = "running"
  /\ \A t \in Tasks : pc[t] = "idle"
  /\ phase' = "stopped"
  /\ UNCHANGED <<redis, backendUp, backendEverUp, PRODUCTS_DB, cache, pc, handler,
                 product_id, update, redis_conn, prod, response, nreq, history,
                 lastUpdate, afterInv, backendHung, lastMerged, afterWrite, afterExpiry>>

\* request slots are anonymous: a request takes the lowest idle one
FreeSlot(t) == pc[t] = "idle" /\ \A u \in Tasks : u < t => pc[u] # "idle"

\* ----- GET /products/{product_id} -----
\* the request arrives; get_redis_connection returns None at once when the handle
\* is unset, else awaits the ping
get_product_start(t, id) ==
  /\ phase = "running"
  /\ FreeSlot(t)
  /\ nreq < MaxRequests
  /\ nreq' = nreq + 1
  /\ handler' = [handler EXCEPT ![t] = "get_product"]
  /\ product_id' = [product_id EXCEPT ![t] = id]
  /\ pc' = [pc EXCEPT ![t] = IF redis = None THEN "get_db" ELSE "get_ping"]
  /\ afterInv' = [afterInv EXCEPT ![t] = (lastUpdate[id] = Settled)]
  /\ afterWrite' = [afterWrite EXCEPT ![t] = lastMerged[id]]
  /\ afterExpiry' = [afterExpiry EXCEPT ![t] =
       /\ _product_cache_key(id) \notin DOMAIN cache
       /\ \A u \in Tasks : ~(pc[u] = "upd_db" /\ product_id[u] = id)]
  /\ UNCHANGED <<phase, redis, backendUp, backendEverUp, PRODUCTS_DB, cache,
                 update, redis_conn, prod, response, history, lastUpdate,
                 backendHung, lastMerged>>

\* the ping answers or raises
get_product_ping(t) ==
  /\ pc[t] = "get_ping"
  /\ ~backendHung
  /\ redis_conn' = [redis_conn EXCEPT ![t] = get_redis_connection]
  /\ pc' = [pc EXCEPT ![t] =
       IF get_redis_connection # None THEN "get_cache" ELSE "get_db"]
  /\ UNCHANGED <<phase, redis, backendUp, backendEverUp, PRODUCTS_DB, cache, handler,
                 product_id, update, prod, response, nreq, history,
                 lastUpdate, afterInv, backendHung, lastMerged, afterWrite, afterExpiry>>

\* variant: the hit is not returned, the handler goes on to the store
get_product_cache_no_return(t) ==
  /\ pc[t] = "get_cache"
  /\ ~backendHung
  /\ pc' = [pc EXCEPT ![t] = "get_db"]
  /\ UNCHANGED <<phase, redis, backendUp, backendEverUp, PRODUCTS_DB, cache, handler,
                 product_id, update, redis_conn, prod, response, nreq, history,
                 lastUpdate, afterInv, backendHung, lastMerged, afterWrite, afterExpiry>>

\* variant: no try/except around the cache read, so a raising get and a payload
\* that does not deserialize end the request with a server error
get_product_cache_uncaught(t) ==
  /\ pc[t] = "get_cache"
  /\ ~backendHung
  /\ LET cached == IF backendUp THEN RedisGet(_product_cache_key(product_id[t]))
                   ELSE None
         hit == IF Truthy(cached) THEN FromCache(cached[1]) ELSE None
     IN IF ~backendUp \/ (Truthy(cached) /\ hit = None)
        THEN /\ response' = [response EXCEPT ![t] = InternalError]
             /\ pc' = [pc EXCEPT ![t] = "done"]
        ELSE IF hit # None
        THEN /\ response' = [response EXCEPT ![t] = Ok(hit[1])]
             /\ pc' = [pc EXCEPT ![t] = "done"]
        ELSE /\ pc' = [pc EXCEPT ![t] = "get_db"]
             /\ UNCHANGED response
  /\ UNCHANGED <<phase, redis, backendUp, backendEverUp, PRODUCTS_DB, cache, handler,
                 product_id, update, redis_conn, prod, nreq, history,
                 lastUpdate, afterInv, backendHung, lastMerged, afterWrite, afterExpiry>>

\* variant: "read repair", a hit is written back into PRODUCTS_DB
get_product_cache_read_repair(t) ==
  /\ pc[t] = "get_cache"
  /\ ~backendHung
  /\ LET cached == IF backendUp THEN RedisGet(_product_cache_key(product_id[t]))
                   ELSE None
         hit == IF Truthy(cached) THEN FromCache(cached[1]) ELSE None
     IN IF hit # None
        THEN /\ response' = [response EXCEPT ![t] = Ok(hit[1])]
             /\ PRODUCTS_DB' = [PRODUCTS_DB EXCEPT ![product_id[t]] = hit[1]]
             /\ pc' = [pc EXCEPT ![t] = "done"]
        ELSE /\ pc' = [pc EXCEPT ![t] = "get_db"]
             /\ UNCHANGED <<response, PRODUCTS_DB>>
  /\ UNCHANGED <<phase, redis, backendUp, backendEverUp, cache, handler,
                 product_id, update, redis_conn, prod, nreq, history,
                 lastUpdate, afterInv, backendHung, lastMerged, afterWrite, afterExpiry>>

\* "Try to get from cache": a hit that deserializes is returned; a miss, a falsy or
\* corrupt payload and a raising get fall through to the store
get_product_cache(t) ==
  /\ pc[t] = "get_cache"
  /\ ~backendHung
  /\ LET cached == IF backendUp THEN RedisGet(_product_cache_key(product_id[t]))
                   ELSE None
         hit == IF Truthy(cached) THEN FromCache(cached[1]) ELSE None
     IN IF hit # None
        THEN /\ response' = [response EXCEPT ![t] = Ok(hit[1])]
             /\ pc' = [pc EXCEPT ![t] = "done"]
        ELSE /\ pc' = [pc EXCEPT ![t] = "get_db"]
             /\ UNCHANGED response
  /\ UNCHANGED <<phase, redis, backendUp, backendEverUp, PRODUCTS_DB, cache, handler,
                 product_id, update, redis_conn, prod, nreq, history,
                 lastUpdate, afterInv, backendHung, lastMerged, afterWrite, afterExpiry>>

\* "Fallback: get from DB", after the sleep: 404, or the record, which is returned
\* at once when there is no connection and after the awaited set otherwise
get_product_db(t) ==
  /\ pc[t] = "get_db"
  /\ LET p == get_product_from_db(product_id[t])
     IN IF p = None
        THEN /\ response' = [response EXCEPT ![t] = NotFound]
             /\ pc' = [pc EXCEPT ![t] = "done"]
             /\ UNCHANGED prod
        ELSE IF redis_conn[t] # None
        THEN /\ prod' = [prod EXCEPT ![t] = p]
             /\ pc' = [pc EXCEPT ![t] = "get_set"]
             /\ UNCHANGED response
        ELSE /\ response' = [response EXCEPT ![t] = Ok(Product(p[1]))]
             /\ pc' = [pc EXCEPT ![t] = "done"]
             /\ UNCHANGED prod
  /\ UNCHANGED <<phase, redis, backendUp, backendEverUp, PRODUCTS_DB, cache, handler,
                 product_id, update, redis_conn, nreq, history,
                 lastUpdate, afterInv, backendHung, lastMerged, afterWrite, afterExpiry>>

\* variant: no try/except around the cache write
get_product_set_uncaught(t) ==
  /\ pc[t] = "get_set"
  /\ ~backendHung
  /\ cache' = IF backendUp
              THEN RedisSet(_product_cache_key(product_id[t]),
                            JsonDumps(prod[t][1]), CACHE_TTL)
              ELSE cache
  /\ response' = [response EXCEPT ![t] =
       IF backendUp THEN Ok(Product(prod[t][1])) ELSE InternalError]
  /\ prod' = [prod EXCEPT ![t] = None]
  /\ pc' = [pc EXCEPT ![t] = "done"]
  /\ UNCHANGED <<phase, redis, backendUp, backendEverUp, PRODUCTS_DB, handler,
                 product_id, update, redis_conn, nreq, history,
                 lastUpdate, afterInv, backendHung, lastMerged, afterWrite, afterExpiry>>

\* variant: the set is sent without ex, so the entry never expires
get_product_set_no_expiry(t) ==
  /\ pc[t] = "get_set"
  /\ ~backendHung
  /\ cache' = IF backendUp
              THEN RedisSet(_product_cache_key(product_id[t]),
                            JsonDumps(prod[t][1]), 0)
              ELSE cache
  /\ response' = [response EXCEPT ![t] = Ok(Product(prod[t][1]))]
  /\ prod' = [prod EXCEPT ![t] = None]
  /\ pc' = [pc EXCEPT ![t] = "done"]
  /\ UNCHANGED <<phase, redis, backendUp, backendEverUp, PRODUCTS_DB, handler,
                 product_id, update, redis_conn, nreq, history,
                 lastUpdate, afterInv, backendHung, lastMerged, afterWrite, afterExpiry>>

\* "Save to cache (cache-aside)": the set stores the text with ex=CACHE_TTL or
\* raises, and the handler returns the Product of prod
get_product_set(t) ==
  /\ pc[t] = "get_set"
  /\ ~backendHung
  /\ cache' = IF backendUp
              THEN RedisSet(_product_cache_key(product_id[t]),
                            JsonDumps(prod[t][1]), CACHE_TTL)
              ELSE cache
  /\ response' = [response EXCEPT ![t] = Ok(Product(prod[t][1]))]
  /\ prod' = [prod EXCEPT ![t] = None]
  /\ pc' = [pc EXCEPT ![t] = "done"]
  /\ UNCHANGED <<phase, redis, backendUp, backendEverUp, PRODUCTS_DB, handler,
                 product_id, update, redis_conn, nreq, history,
                 lastUpdate, afterInv, backendHung, lastMerged, afterWrite, afterExpiry>>

\* ----- PUT /products/{product_id} -----
update_product_start(t, id, upd) ==
  /\ phase = "running"
  /\ FreeSlot(t)
  /\ nreq < MaxRequests
  /\ nreq' = nreq + 1
  /\ handler' = [handler EXCEPT ![t] = "update_product"]
  /\ product_id' = [product_id EXCEPT ![t] = id]
  /\ update' = [update EXCEPT ![t] = Some(upd)]
  /\ pc' = [pc EXCEPT ![t] = "upd_db"]
  /\ afterExpiry' = [u \in Tasks |->
       IF product_id[u] = id THEN FALSE ELSE afterExpiry[u]]
  /\ UNCHANGED <<phase, redis, backendUp, backendEverUp, PRODUCTS_DB, cache,
                 redis_conn, prod, response, history, lastUpdate, afterInv,
                 backendHung, lastMerged, afterWrite>>

\* variant: the background task is added before the 404 check
update_product_db_schedules_first(t) ==
  /\ pc[t] = "upd_db"
  /\ LET existing == get_product_from_db(product_id[t])
         updated == ApplyUpdate(existing[1], update[t][1])
     IN IF existing = None
        THEN /\ response' = [response EXCEPT ![t] = NotFound]
             /\ pc' = [pc EXCEPT ![t] = "inv_pending"]
             /\ UNCHANGED <<PRODUCTS_DB, history, lastUpdate, afterInv,
                            lastMerged, afterWrite>>
        ELSE /\ PRODUCTS_DB' = [PRODUCTS_DB EXCEPT ![product_id[t]] = updated]
             /\ response' = [response EXCEPT ![t] = Ok(Product(updated))]
             /\ pc' = [pc EXCEPT ![t] = "inv_pending"]
             /\ history' = [history EXCEPT ![product_id[t]] = @ \cup {updated}]
             /\ lastUpdate' = [lastUpdate EXCEPT ![product_id[t]] = t]
             /\ afterInv' = [u \in Tasks |->
                  IF product_id[u] = product_id[t] THEN FALSE ELSE afterInv[u]]
             /\ lastMerged' = [lastMerged EXCEPT ![product_id[t]] =
                  Some(Product(updated))]
             /\ afterWrite' = [u \in Tasks |->
                  IF product_id[u] = product_id[t] THEN None ELSE afterWrite[u]]
  /\ UNCHANGED <<phase, redis, backendUp, backendEverUp, cache, handler,
                 product_id, update, redis_conn, prod, nreq, backendHung,
                 afterExpiry>>

\* variant: the background task is added only when the record changed
update_product_db_skips_unchanged(t) ==
  /\ pc[t] = "upd_db"
  /\ LET existing == get_product_from_db(product_id[t])
         updated == ApplyUpdate(existing[1], update[t][1])
     IN IF existing = None
        THEN /\ response' = [response EXCEPT ![t] = NotFound]
             /\ pc' = [pc EXCEPT ![t] = "done"]
             /\ UNCHANGED <<PRODUCTS_DB, history, lastUpdate, afterInv,
                            lastMerged, afterWrite>>
        ELSE /\ PRODUCTS_DB' = [PRODUCTS_DB EXCEPT ![product_id[t]] = updated]
             /\ response' = [response EXCEPT ![t] = Ok(Product(updated))]
             /\ pc' = [pc EXCEPT ![t] =
                  IF updated = existing[1] THEN "done" ELSE "inv_pending"]
             /\ history' = [history EXCEPT ![product_id[t]] = @ \cup {updated}]
             /\ lastUpdate' = [lastUpdate EXCEPT ![product_id[t]] =
                  IF updated = existing[1] THEN @ ELSE t]
             /\ afterInv' = [u \in Tasks |->
                  IF product_id[u] = product_id[t] THEN FALSE ELSE afterInv[u]]
             /\ lastMerged' = [lastMerged EXCEPT ![product_id[t]] =
                  Some(Product(updated))]
             /\ afterWrite' = [u \in Tasks |->
                  IF product_id[u] = product_id[t] THEN None ELSE afterWrite[u]]
  /\ UNCHANGED <<phase, redis, backendUp, backendEverUp, cache, handler,
                 product_id, update, redis_conn, prod, nreq, backendHung,
                 afterExpiry>>

\* variant: the merged record is returned but never put into PRODUCTS_DB
update_product_db_no_write(t) ==
  /\ pc[t] = "upd_db"
  /\ LET existing == get_product_from_db(product_id[t])
         updated == ApplyUpdate(existing[1], update[t][1])
     IN IF existing = None
        THEN /\ response' = [response EXCEPT ![t] = NotFound]
             /\ pc' = [pc EXCEPT ![t] = "done"]
             /\ UNCHANGED <<history, lastUpdate, afterInv, lastMerged, afterWrite>>
        ELSE /\ response' = [response EXCEPT ![t] = Ok(Product(updated))]
             /\ pc' = [pc EXCEPT ![t] = "inv_pending"]
             /\ history' = [history EXCEPT ![product_id[t]] = @ \cup {updated}]
             /\ lastUpdate' = [lastUpdate EXCEPT ![product_id[t]] = t]
             /\ afterInv' = [u \in Tasks |->
                  IF product_id[u] = product_id[t] THEN FALSE ELSE afterInv[u]]
             /\ lastMerged' = [lastMerged EXCEPT ![product_id[t]] =
                  Some(Product(updated))]
             /\ afterWrite' = [u \in Tasks |->
                  IF product_id[u] = product_id[t] THEN None ELSE afterWrite[u]]
  /\ UNCHANGED <<phase, redis, backendUp, backendEverUp, PRODUCTS_DB, cache, handler,
                 product_id, update, redis_conn, prod, nreq, backendHung,
                 afterExpiry>>

\* variant: write-through, the merged record is also set in the cache
update_product_db_write_through(t) ==
  /\ pc[t] = "upd_db"
  /\ LET existing == get_product_from_db(product_id[t])
         updated == ApplyUpdate(existing[1], update[t][1])
     IN IF existing = None
        THEN /\ response' = [response EXCEPT ![t] = NotFound]
             /\ pc' = [pc EXCEPT ![t] = "done"]
             /\ UNCHANGED <<PRODUCTS_DB, cache, history, lastUpdate, afterInv,
                            lastMerged, afterWrite>>
        ELSE /\ PRODUCTS_DB' = [PRODUCTS_DB EXCEPT ![product_id[t]] = updated]
             /\ cache' = IF redis # None /\ backendUp
                         THEN RedisSet(_product_cache_key(product_id[t]),
                                       JsonDumps(updated), CACHE_TTL)
                         ELSE cache
             /\ response' = [response EXCEPT ![t] = Ok(Product(updated))]
             /\ pc' = [pc EXCEPT ![t] = "inv_pending"]
             /\ history' = [history EXCEPT ![product_id[t]] = @ \cup {updated}]
             /\ lastUpdate' = [lastUpdate EXCEPT ![product_id[t]] = t]
             /\ afterInv' = [u \in Tasks |->
                  IF product_id[u] = product_id[t] THEN FALSE ELSE afterInv[u]]
             /\ lastMerged' = [lastMerged EXCEPT ![product_id[t]] =
                  Some(Product(updated))]
             /\ afterWrite' = [u \in Tasks |->
                  IF product_id[u] = product_id[t] THEN None ELSE afterWrite[u]]
  /\ UNCHANGED <<phase, redis, backendUp, backendEverUp, handler,
                 product_id, update, redis_conn, prod, nreq, backendHung,
                 afterExpiry>>

\* variant: the record is read before the sleep, so the merge is made onto a
\* record the store held at some earlier moment of the request
update_product_db_stale_read(t) ==
  /\ pc[t] = "upd_db"
  /\ IF get_product_from_db(product_id[t]) = None
     THEN /\ response' = [response EXCEPT ![t] = NotFound]
          /\ pc' = [pc EXCEPT ![t] = "done"]
          /\ UNCHANGED <<PRODUCTS_DB, history, lastUpdate, afterInv,
                         lastMerged, afterWrite>>
     ELSE \E existing \in history[product_id[t]] :
            LET updated == ApplyUpdate(existing, update[t][1])
            IN /\ PRODUCTS_DB' = [PRODUCTS_DB EXCEPT ![product_id[t]] = updated]
               /\ response' = [response EXCEPT ![t] = Ok(Product(updated))]
               /\ pc' = [pc EXCEPT ![t] = "inv_pending"]
               /\ history' = [history EXCEPT ![product_id[t]] = @ \cup {updated}]
               /\ lastUpdate' = [lastUpdate EXCEPT ![product_id[t]] = t]
               /\ afterInv' = [u \in Tasks |->
                    IF product_id[u] = product_id[t] THEN FALSE ELSE afterInv[u]]
               /\ lastMerged' = [lastMerged EXCEPT ![product_id[t]] =
                    Some(Product(updated))]
               /\ afterWrite' = [u \in Tasks |->
                    IF product_id[u] = product_id[t] THEN None ELSE afterWrite[u]]
  /\ UNCHANGED <<phase, redis, backendUp, backendEverUp, cache, handler,
                 product_id, update, redis_conn, prod, nreq, backendHung,
                 afterExpiry>>

\* after the sleep: read, merge, write the store, add the background task and
\* return, with no await in between
update_product_db(t) ==
  /\ pc[t] = "upd_db"
  /\ LET existing == get_product_from_db(product_id[t])
         updated == ApplyUpdate(existing[1], update[t][1])
     IN IF existing = None
        THEN /\ response' = [response EXCEPT ![t] = NotFound]
             /\ pc' = [pc EXCEPT ![t] = "done"]
             /\ UNCHANGED <<PRODUCTS_DB, history, lastUpdate, afterInv,
                            lastMerged, afterWrite>>
        ELSE /\ PRODUCTS_DB' = [PRODUCTS_DB EXCEPT ![product_id[t]] = updated]
             /\ response' = [response EXCEPT ![t] = Ok(Product(updated))]
             /\ pc' = [pc EXCEPT ![t] = "inv_pending"]
             /\ history' = [history EXCEPT ![product_id[t]] = @ \cup {updated}]
             /\ lastUpdate' = [lastUpdate EXCEPT ![product_id[t]] = t]
             /\ afterInv' = [u \in Tasks |->
                  IF product_id[u] = product_id[t] THEN FALSE ELSE afterInv[u]]
             /\ lastMerged' = [lastMerged EXCEPT ![product_id[t]] =
                  Some(Product(updated))]
             /\ afterWrite' = [u \in Tasks |->
                  IF product_id[u] = product_id[t] THEN None ELSE afterWrite[u]]
  /\ UNCHANGED <<phase, redis, backendUp, backendEverUp, cache, handler,
                 product_id, update, redis_conn, prod, nreq, backendHung,
                 afterExpiry>>

\* history: the invalidation of slot t's update completes
InvalidationCompleted(t) ==
  lastUpdate' = [lastUpdate EXCEPT ![product_id[t]] =
                   IF @ = t THEN Settled ELSE @]

\* variant: the task ends after get_redis_connection, the delete is never sent
invalidate_cache_ping_no_delete(t) ==
  /\ pc[t] = "inv_pending"
  /\ redis # None => ~backendHung
  /\ redis_conn' = [redis_conn EXCEPT ![t] = get_redis_connection]
  /\ pc' = [pc EXCEPT ![t] = "done"]
  /\ InvalidationCompleted(t)
  /\ UNCHANGED <<phase, redis, backendUp, backendEverUp, PRODUCTS_DB, cache, handler,
                 product_id, update, prod, response, nreq, history, afterInv,
                 backendHung, lastMerged, afterWrite, afterExpiry>>

\* invalidate_cache, run after the response was sent: no connection ends the task
invalidate_cache_ping(t) ==
  /\ pc[t] = "inv_pending"
  /\ redis # None => ~backendHung
  /\ redis_conn' = [redis_conn EXCEPT ![t] = get_redis_connection]
  /\ IF get_redis_connection # None
     THEN /\ pc' = [pc EXCEPT ![t] = "inv_delete"]
          /\ UNCHANGED lastUpdate
     ELSE /\ pc' = [pc EXCEPT ![t] = "done"]
          /\ InvalidationCompleted(t)
  /\ UNCHANGED <<phase, redis, backendUp, backendEverUp, PRODUCTS_DB, cache, handler,
                 product_id, update, prod, response, nreq, history, afterInv,
                 backendHung, lastMerged, afterWrite, afterExpiry>>

\* the delete removes the key or raises
invalidate_cache_delete(t) ==
  /\ pc[t] = "inv_delete"
  /\ ~backendHung
  /\ cache' = IF backendUp THEN RedisDelete(_product_cache_key(product_id[t]))
              ELSE cache
  /\ pc' = [pc EXCEPT ![t] = "done"]
  /\ InvalidationCompleted(t)
  /\ UNCHANGED <<phase, redis, backendUp, backendEverUp, PRODUCTS_DB, handler,
                 product_id, update, redis_conn, prod, response, nreq, history,
                 afterInv, backendHung, lastMerged, afterWrite, afterExpiry>>

\* the request's coroutine and its background task are over
request_done(t) ==
  /\ pc[t] = "done"
  /\ pc' = [pc EXCEPT ![t] = "idle"]
  /\ handler' = [handler EXCEPT ![t] = "none"]
  /\ product_id' = [product_id EXCEPT ![t] = 0]
  /\ update' = [update EXCEPT ![t] = None]
  /\ redis_conn' = [redis_conn EXCEPT ![t] = None]
  /\ response' = [response EXCEPT ![t] = NoResponse]
  /\ afterInv' = [afterInv EXCEPT ![t] = FALSE]
  /\ afterWrite' = [afterWrite EXCEPT ![t] = None]
  /\ afterExpiry' = [afterExpiry EXCEPT ![t] = FALSE]
  /\ UNCHANGED <<phase, redis, backendUp, backendEverUp, PRODUCTS_DB, cache,
                 prod, nreq, history, lastUpdate, backendHung, lastMerged>>

Next ==
  \/ BackendFail
  \/ BackendRecover
  \/ BackendHang
  \/ \E i \in ProductIds : Expire(_product_cache_key(i))
  \/ \E i \in ProductIds : Corrupt(_product_cache_key(i))
  \/ on_startup
  \/ on_shutdown
  \/ \E t \in Tasks, i \in ProductIds : get_product_start(t, i)
  \/ \E t \in Tasks : get_product_ping(t)
  \/ \E t \in Tasks : get_product_cache(t)
  \/ \E t \in Tasks : get_product_db(t)
  \/ \E t \in Tasks : get_product_set(t)
  \/ \E t \in Tasks, i \in ProductIds, u \in ProductUpdate : update_product_start(t, i, u)
  \/ \E t \in Tasks : update_product_db(t)
  \/ \E t \in Tasks : invalidate_cache_ping(t)
  \/ \E t \in Tasks : invalidate_cache_delete(t)
  \/ \E t \in Tasks : request_done(t)

Spec == Init /\ [][Next]_vars

\* requests served one at a time: a request is accepted only when no other request
\* or background task is under way
Quiet == \A u \in Tasks : pc[u] = "idle"

SeqNext ==
  \/ BackendFail
  \/ BackendRecover
  \/ BackendHang
  \/ \E i \in ProductIds : Expire(_product_cache_key(i))
  \/ \E i \in ProductIds : Corrupt(_product_cache_key(i))
  \/ on_startup
  \/ on_shutdown
  \/ \E t \in Tasks, i \in ProductIds : Quiet /\ get_product_start(t, i)
  \/ \E t \in Tasks : get_product_ping(t)
  \/ \E t \in Tasks : get_product_cache(t)
  \/ \E t \in Tasks : get_product_db(t)
  \/ \E t \in Tasks : get_product_set(t)
  \/ \E t \in Tasks, i \in ProductIds, u \in ProductUpdate :
       Quiet /\ update_product_start(t, i, u)
  \/ \E t \in Tasks : update_product_db(t)
  \/ \E t \in Tasks : invalidate_cache_ping(t)
  \/ \E t \in Tasks : invalidate_cache_delete(t)
  \/ \E t \in Tasks : request_done(t)

SeqSpec == Init /\ [][SeqNext]_vars

\* the event loop runs every background task that is ready: a step of
\* invalidate_cache that stays possible is eventually taken
FairSpec ==
  /\ Spec
  /\ \A t \in Tasks : WF_vars(invalidate_cache_ping(t))
  /\ \A t \in Tasks : WF_vars(invalidate_cache_delete(t))

\* ----- vocabulary of the properties -----
Fetch(t) == handler[t] = "get_product"
Update(t) == handler[t] = "update_product"
Stored(id) == id \in DOMAIN PRODUCTS_DB
\* slot t's get_product returns in this step
FetchReturns(t) == Fetch(t) /\ pc[t] # "done" /\ pc'[t] = "done"
\* slot t's update_product runs its store step and returns in this step
UpdateReturns(t) == pc[t] = "upd_db" /\ pc'[t] # "upd_db"
EmptyUpdate == [name |-> None, price |-> None]

\* C1: a fetch(id) that begins after the last update of id has returned and its
\* invalidation task has completed returns the store's record, the merged one,
\* whatever fetches ran beside the update and whatever the cache health was
\* during the invalidation.
C1_FetchAfterInvalidationIsFresh ==
  \A t \in Tasks :
    (Fetch(t) /\ pc[t] = "done" /\ afterInv[t] /\ Stored(product_id[t]))
      => response[t] = Ok(PRODUCTS_DB[product_id[t]])

\* C2 as stated: whenever fetch(id) returns for a stored id, it returns the record
\* the store holds at that moment.
C2_FetchEqualsCurrentStore ==
  [][\A t \in Tasks :
       (FetchReturns(t) /\ Stored(product_id[t]))
         => response'[t] = Ok(PRODUCTS_DB'[product_id[t]])]_vars

\* C2 as amended: fetch(id) for a stored id always returns a record, and while no
\* update has changed the record of id it returns the store's current record,
\* with the cache healthy, down, failing midway or holding a damaged entry.
C2_FetchEqualsUnchangedStore ==
  \A t \in Tasks :
    (Fetch(t) /\ pc[t] = "done" /\ Stored(product_id[t]))
      => /\ response[t].status = 200
         /\ history[product_id[t]] = {PRODUCTS_DB[product_id[t]]}
              => response[t].body = Some(PRODUCTS_DB[product_id[t]])

\* the probe failed although the handle is set, the cache holds an entry for the
\* id, and the fetch returned the store's never-updated record
C2_Witness ==
  \E t \in Tasks :
    /\ Fetch(t) /\ pc[t] = "done" /\ Stored(product_id[t])
    /\ redis # None /\ redis_conn[t] = None
    /\ _product_cache_key(product_id[t]) \in DOMAIN cache
    /\ history[product_id[t]] = {PRODUCTS_DB[product_id[t]]}
    /\ response[t] = Ok(PRODUCTS_DB[product_id[t]])

\* C3: every record a fetch(id) returns is one the store has held for id.
C3_FetchReturnsStoredValue ==
  \A t \in Tasks :
    (Fetch(t) /\ pc[t] = "done" /\ response[t].status = 200)
      => response[t].body[1] \in history[product_id[t]]

\* a fetch that began after the update was invalidated returned a stale record: one
\* the store held earlier and no longer holds
C3_Witness ==
  \E t \in Tasks :
    /\ Fetch(t) /\ pc[t] = "done" /\ response[t].status = 200
    /\ afterInv[t]
    /\ response[t].body[1] # PRODUCTS_DB[product_id[t]]
    /\ response[t].body[1] \in history[product_id[t]]

\* C4: a fetch of an id the store lacks returns NotFound and leaves the cache as
\* it was, and the cache never holds an entry under the key of such an id.
C4_AbsentIdNotFound ==
  /\ [](\A i \in ProductIds :
          ~Stored(i) => <<"product:", i>> \notin DOMAIN cache)
  /\ [][\A t \in Tasks :
          (FetchReturns(t) /\ ~Stored(product_id[t]))
            => response'[t] = NotFound /\ cache' = cache]_vars

\* a fetch of an absent id returned NotFound over a healthy connection while the
\* cache was not empty
C4_Witness ==
  \E t \in Tasks :
    /\ Fetch(t) /\ pc[t] = "done" /\ ~Stored(product_id[t])
    /\ response[t] = NotFound
    /\ redis_conn[t] # None /\ backendUp
    /\ cache # <<>>

\* C5: while the cache backend has never been reachable, a fetch of a stored id
\* returns the record the store holds when it returns, and an update of a stored id
\* returns the merged record and leaves it in the store.
C5_CacheDownThroughout ==
  [][~backendEverUp =>
       \A t \in Tasks :
         /\ (FetchReturns(t) /\ Stored(product_id[t]))
              => response'[t] = Ok(PRODUCTS_DB'[product_id[t]])
         /\ (UpdateReturns(t) /\ Stored(product_id[t]))
              => LET old == PRODUCTS_DB[product_id[t]]
                     new == PRODUCTS_DB'[product_id[t]]
                     upd == update[t][1]
                 IN /\ response'[t] = Ok(new)
                    /\ new.id = old.id
                    /\ new.name = (IF upd.name = None THEN old.name ELSE upd.name[1])
                    /\ new.price = (IF upd.price = None THEN old.price
                                    ELSE upd.price[1])]_vars

\* with the backend down from the start, an update changed the record and a later
\* fetch returned it
C5_Witness ==
  /\ ~backendEverUp
  /\ \E t \in Tasks :
       /\ Fetch(t) /\ pc[t] = "done"
       /\ Cardinality(history[product_id[t]]) > 1
       /\ response[t] = Ok(PRODUCTS_DB[product_id[t]])

\* a payload get_product cannot turn into a Product
Damaged(v) == v = EmptyText \/ v = NotJson \/ Len(v) < 3

\* C6: no cache failure reaches the caller: every response is a Record or NotFound;
\* a failed probe, a failed get and a damaged payload send the fetch to the store,
\* which then answers; a failed set changes nothing and the record is returned; a
\* failed probe or delete ends the invalidation with the cache untouched.
C6_CacheFailuresAbsorbed ==
  [][\A t \in Tasks :
       LET k == _product_cache_key(product_id[t])
           moved == pc'[t] # pc[t]
       IN /\ response'[t].status \in {0, 200, 404}
          /\ (pc[t] = "get_ping" /\ moved /\ ~backendUp)
               => pc'[t] = "get_db" /\ response'[t] = NoResponse
          /\ (pc[t] = "get_cache" /\ moved
                /\ (~backendUp \/ (k \in DOMAIN cache /\ Damaged(cache[k].value))))
               => pc'[t] = "get_db" /\ response'[t] = NoResponse
          /\ (pc[t] = "get_db" /\ moved /\ Stored(product_id[t]))
               => /\ pc'[t] = "done" => response'[t] = Ok(PRODUCTS_DB[product_id[t]])
                  /\ pc'[t] # "done" => prod'[t] = Some(PRODUCTS_DB[product_id[t]])
          /\ (pc[t] = "get_set" /\ moved /\ ~backendUp)
               => cache' = cache /\ response'[t] = Ok(prod[t][1])
          /\ (pc[t] \in {"inv_pending", "inv_delete"} /\ moved /\ ~backendUp)
               => cache' = cache /\ pc'[t] = "done" /\ response'[t] = response[t]]_vars

\* a fetch whose probe succeeded is on its way to the store while the backend is
\* down again and the entry of its id is damaged
C6_Witness ==
  \E t \in Tasks :
    /\ Fetch(t) /\ pc[t] = "get_db" /\ redis_conn[t] # None
    /\ ~backendUp
    /\ _product_cache_key(product_id[t]) \in DOMAIN cache
    /\ Damaged(cache[_product_cache_key(product_id[t])].value)

\* C7: an update of a stored id returns the store's record with exactly the
\* provided fields overwritten, and that record is in the store when the call
\* returns, with the invalidation only scheduled and the cache not yet touched.
C7_UpdateMergesBeforeReturn ==
  [][\A t \in Tasks :
       (UpdateReturns(t) /\ Stored(product_id[t]))
         => LET old == PRODUCTS_DB[product_id[t]]
                new == PRODUCTS_DB'[product_id[t]]
                upd == update[t][1]
            IN /\ new = [id |-> product_id[t],
                         name |-> IF upd.name = None THEN old.name ELSE upd.name[1],
                         price |-> IF upd.price = None THEN old.price
                                   ELSE upd.price[1]]
               /\ old.id = product_id[t]
               /\ response'[t] = Ok(new)
               /\ pc'[t] = "inv_pending"
               /\ cache' = cache]_vars

\* update(3, {price: 550}) returned the merged record, which the store holds, and
\* its invalidation has not run
C7_Witness ==
  \E t \in Tasks :
    /\ Update(t) /\ pc[t] = "inv_pending" /\ product_id[t] = 3
    /\ update[t] = Some([name |-> None, price |-> Some(550)])
    /\ response[t] = Ok([id |-> 3, name |-> "Headphones", price |-> 550])
    /\ PRODUCTS_DB[3] = [id |-> 3, name |-> "Headphones", price |-> 550]

\* C8: an update of an id the store lacks returns NotFound, changes neither store
\* nor cache, schedules no invalidation, and the store never gains a record.
C8_UpdateAbsentIdNotFound ==
  /\ [](DOMAIN PRODUCTS_DB = 1..LastStoredId)
  /\ [][\A t \in Tasks :
          (UpdateReturns(t) /\ ~Stored(product_id[t]))
            => /\ response'[t] = NotFound
               /\ PRODUCTS_DB' = PRODUCTS_DB
               /\ cache' = cache
               /\ pc'[t] = "done"]_vars

\* an update of an absent id is over with NotFound
C8_Witness ==
  \E t \in Tasks :
    /\ Update(t) /\ pc[t] = "done" /\ ~Stored(product_id[t])
    /\ response[t] = NotFound

\* C9: an update with an empty patch leaves the whole store as it is, returns the
\* stored record and still schedules the invalidation of its id.
C9_EmptyUpdateStillInvalidates ==
  [][\A t \in Tasks :
       (UpdateReturns(t) /\ Stored(product_id[t]) /\ update[t] = Some(EmptyUpdate))
         => /\ PRODUCTS_DB' = PRODUCTS_DB
            /\ response'[t] = Ok(PRODUCTS_DB[product_id[t]])
            /\ pc'[t] = "inv_pending"]_vars

\* an empty update has its invalidation scheduled beside another update of the
\* same id that changed the record
C9_Witness ==
  \E t, u \in Tasks :
    /\ t # u
    /\ Update(t) /\ pc[t] = "inv_pending" /\ update[t] = Some(EmptyUpdate)
    /\ Update(u) /\ pc[u] = "inv_pending" /\ product_id[u] = product_id[t]
    /\ Cardinality(history[product_id[t]]) > 1

\* C10: with requests served one at a time, a fetch of a stored id whose set
\* reaches a healthy cache leaves under "product:"+id the text of the store's
\* record with a 60 second expiry, and returns that record.
C10_MissPopulatesCache ==
  [][\A t \in Tasks :
       (pc[t] = "get_set" /\ pc'[t] = "done" /\ backendUp)
         => LET k == <<"product:", product_id[t]>>
                r == PRODUCTS_DB[product_id[t]]
            IN /\ k \in DOMAIN cache'
               /\ cache'[k] = [value |-> << <<"id", r.id>>, <<"name", r.name>>,
                                            <<"price", r.price>> >>,
                               ex |-> 60]
               /\ FromCache(cache'[k].value) = Some(r)
               /\ response'[t] = Ok(r)]_vars

\* after an update, a fetch over a healthy connection has returned and the cache
\* holds the updated record for 60 seconds
C10_Witness ==
  \E t \in Tasks :
    /\ Fetch(t) /\ pc[t] = "done" /\ redis_conn[t] # None
    /\ Cardinality(history[product_id[t]]) > 1
    /\ <<"product:", product_id[t]>> \in DOMAIN cache
    /\ cache[<<"product:", product_id[t]>>] =
         [value |-> JsonDumps(PRODUCTS_DB[product_id[t]]), ex |-> 60]
    /\ response[t] = Ok(PRODUCTS_DB[product_id[t]])

\* C11: a fetch whose get reaches a healthy cache holding an undamaged entry for
\* its id returns the Product of that entry in that step, without going to the
\* store and without changing cache or store.
C11_CacheHitSkipsStore ==
  [][\A t \in Tasks :
       LET k == _product_cache_key(product_id[t])
       IN (/\ pc[t] = "get_cache" /\ pc'[t] # "get_cache"
           /\ backendUp /\ k \in DOMAIN cache /\ ~Damaged(cache[k].value))
            => LET v == cache[k].value
               IN /\ pc'[t] = "done"
                  /\ response'[t] = Ok([id |-> v[1][2], name |-> v[2][2],
                                        price |-> v[3][2]])
                  /\ cache' = cache
                  /\ PRODUCTS_DB' = PRODUCTS_DB
                  /\ prod' = prod]_vars

\* a fetch begun after an update had returned was answered with the entry of its
\* id, which is not the record the store holds
C11_Witness ==
  \E t \in Tasks :
    LET k == _product_cache_key(product_id[t])
    IN /\ Fetch(t) /\ pc[t] = "done" /\ redis_conn[t] # None
       /\ afterWrite[t] # None
       /\ response[t].status = 200
       /\ k \in DOMAIN cache
       /\ cache[k].value = JsonDumps(response[t].body[1])
       /\ response[t].body[1] # PRODUCTS_DB[product_id[t]]

\* C12 as stated: a fetch(id) that begins after an update of id has returned, with
\* no other update writing id in between, returns the merged record that update
\* returned, whether or not the invalidation task has run.
C12_FetchAfterUpdateIsMerged ==
  \A t \in Tasks :
    (Fetch(t) /\ pc[t] = "done" /\ afterWrite[t] # None)
      => response[t] = Ok(afterWrite[t][1])

\* C12, amended: such a fetch returns the merged record whenever it is answered
\* from the store, that is whenever it returns from its store read or from the
\* set that follows it; an answer from the cache is not bound by this.
C12_StoreAnswerAfterUpdateIsMerged ==
  [][\A t \in Tasks :
       (FetchReturns(t) /\ afterWrite[t] # None /\ pc[t] \in {"get_db", "get_set"})
         => response'[t] = Ok(afterWrite[t][1])]_vars

\* a fetch begun after an update that changed the record went to the store while
\* that update's invalidation was still pending, and returned the merged record
C12_Witness ==
  \E t, u \in Tasks :
    /\ Fetch(t) /\ pc[t] = "done" /\ afterWrite[t] # None
    /\ Update(u) /\ pc[u] = "inv_pending" /\ product_id[u] = product_id[t]
    /\ response[t] = Ok(afterWrite[t][1])
    /\ response[t] = response[u]
    /\ \E old \in history[product_id[t]] : old # response[t].body[1]

\* C13: a fetch that awaits the reply of a cache probe, get or set is never stuck:
\* in every state its handler can take its next step, because the reply arrives,
\* the command raises, or a timeout cuts the wait off.
C13_CacheWaitIsCutOff ==
  \A t \in Tasks :
    (Fetch(t) /\ pc[t] \in {"get_ping", "get_cache", "get_set"})
      => ENABLED (get_product_ping(t) \/ get_product_cache(t) \/ get_product_set(t))

\* the handle is set and the server answers commands
Healthy == redis # None /\ backendUp /\ ~backendHung

C15_EntryTransitions ==
  [][\A i \in ProductIds :
       LET k == _product_cache_key(i)
           SetBy(t) == /\ Fetch(t) /\ product_id[t] = i
                       /\ pc[t] = "get_set" /\ pc'[t] = "done"
                       /\ prod[t] # None
                       /\ prod[t][1] \in history[i]
                       /\ cache'[k] = [value |-> JsonDumps(prod[t][1]),
                                       ex |-> CACHE_TTL]
           DeletedBy(t) == /\ Update(t) /\ product_id[t] = i
                           /\ pc[t] = "inv_delete" /\ pc'[t] = "done"
       IN /\ (k \notin DOMAIN cache /\ k \in DOMAIN cache')
               => \E t \in Tasks : SetBy(t)
          /\ (k \in DOMAIN cache /\ k \in DOMAIN cache' /\ cache'[k] # cache[k]
              /\ pc' # pc)
               => \E t \in Tasks : SetBy(t)
          /\ (k \in DOMAIN cache /\ k \notin DOMAIN cache')
               => (pc' = pc \/ \E t \in Tasks : DeletedBy(t))
          /\ (\E t \in Tasks : Update(t) /\ pc[t] = "upd_db" /\ pc'[t] # "upd_db")
               => cache' = cache]_vars

\* the entry of an id holds the text of an earlier record of the store while an
\* update that changed the record has returned and its delete is yet to run
C15_Witness ==
  \E i \in ProductIds, t \in Tasks :
    LET k == _product_cache_key(i)
    IN /\ k \in DOMAIN cache
       /\ cache[k].ex = CACHE_TTL
       /\ \E r \in history[i] : cache[k].value = JsonDumps(r) /\ r # PRODUCTS_DB[i]
       /\ Update(t) /\ product_id[t] = i /\ pc[t] = "inv_pending"
       /\ response[t] = Ok(PRODUCTS_DB[i])

\* C16: the store holds exactly one record under each of its ids, carrying that
\* id, and a record changes only in the store step of an update of its id, from
\* the record before to the record with every provided field of the patch
\* replaced and every other field kept; no state in between is ever stored.
C16_NoPartialUpdate ==
  /\ [](/\ DOMAIN PRODUCTS_DB = 1..LastStoredId
        /\ \A i \in DOMAIN PRODUCTS_DB :
             /\ DOMAIN PRODUCTS_DB[i] = {"id", "name", "price"}
             /\ PRODUCTS_DB[i].id = i)
  /\ [][\A i \in DOMAIN PRODUCTS_DB :
          PRODUCTS_DB'[i] # PRODUCTS_DB[i]
            => \E t \in Tasks :
                 /\ Update(t) /\ pc[t] = "upd_db" /\ pc'[t] = "inv_pending"
                 /\ product_id[t] = i
                 /\ LET upd == update[t][1]
                        old == PRODUCTS_DB[i]
                        new == PRODUCTS_DB'[i]
                    IN /\ new.id = old.id
                       /\ new.name =
                            (IF upd.name = None THEN old.name ELSE upd.name[1])
                       /\ new.price =
                            (IF upd.price = None THEN old.price ELSE upd.price[1])]_vars

\* an update that provides both fields has written the store, and the record
\* holds both new values
C16_Witness ==
  \E t \in Tasks :
    /\ Update(t) /\ pc[t] = "inv_pending"
    /\ update[t] = Some([name |-> Some("Tablet"), price |-> Some(550)])
    /\ PRODUCTS_DB[product_id[t]] =
         [id |-> product_id[t], name |-> "Tablet", price |-> 550]
    /\ \E old \in history[product_id[t]] : old.name # "Tablet" /\ old.price # 550

\* C17: no step of a fetch, from its arrival to its return on any path, changes
\* the store; the store changes only in the store step of an update, and then
\* only under the id that update was called with.
C17_OnlyUpdateWritesStore ==
  [][/\ \A t \in Tasks :
          ((Fetch(t) \/ handler'[t] = "get_product") /\ pc'[t] # pc[t])
            => PRODUCTS_DB' = PRODUCTS_DB
     /\ PRODUCTS_DB' # PRODUCTS_DB
          => \E t \in Tasks :
               /\ Update(t) /\ pc[t] = "upd_db"
               /\ DOMAIN PRODUCTS_DB' = DOMAIN PRODUCTS_DB
               /\ \A i \in DOMAIN PRODUCTS_DB \ {product_id[t]} :
                    PRODUCTS_DB'[i] = PRODUCTS_DB[i]]_vars

\* after an update changed a record, one fetch has returned NotFound and another
\* has returned the updated record; the other records are the initial ones
C17_Witness ==
  \E t, u \in Tasks :
    /\ Fetch(t) /\ pc[t] = "done" /\ response[t] = NotFound
    /\ Fetch(u) /\ pc[u] = "done" /\ Stored(product_id[u])
    /\ response[u] = Ok(PRODUCTS_DB[product_id[u]])
    /\ Cardinality(history[product_id[u]]) > 1
    /\ PRODUCTS_DB[1] = [id |-> 1, name |-> "Laptop", price |-> 1000]
    /\ PRODUCTS_DB[2] = [id |-> 2, name |-> "Smartphone", price |-> 500]

\* C18: a fetch(id) that begins when the cache holds no entry for id, every
\* update of id issued so far has written the store, and no update of id is
\* issued afterwards, returns the store's current record.
C18_FetchAfterExpiryIsCurrent ==
  \A t \in Tasks :
    (Fetch(t) /\ pc[t] = "done" /\ afterExpiry[t] /\ Stored(product_id[t]))
      => response[t] = Ok(PRODUCTS_DB[product_id[t]])

\* slot t's update_product has made its store write
Written(t) == Update(t) /\ pc[t] \in {"inv_pending", "inv_delete", "done"}

\* C19: the store step of an update merges its patch onto the record the store
\* holds in that very step, whatever other updates are under way; so when two
\* updates of one stored id are the only requests issued and both have written,
\* the stored record is the initial record with the two patches applied one
\* after the other, in one of the two orders.
C19_UpdatesSerialized ==
  /\ [](\A t, u \in Tasks :
          (/\ t # u /\ nreq = 2
           /\ Written(t) /\ Written(u)
           /\ product_id[t] = product_id[u] /\ Stored(product_id[t]))
            => LET r0 == PRODUCTS_DB_initial[product_id[t]]
                   pt == update[t][1]
                   pu == update[u][1]
               IN PRODUCTS_DB[product_id[t]] \in
                    {ApplyUpdate(ApplyUpdate(r0, pt), pu),
                     ApplyUpdate(ApplyUpdate(r0, pu), pt)})
  /\ [][\A t \in Tasks :
          (Update(t) /\ pc[t] = "upd_db" /\ pc'[t] = "inv_pending")
            => PRODUCTS_DB'[product_id[t]] =
                 ApplyUpdate(PRODUCTS_DB[product_id[t]], update[t][1])]_vars

\* two updates of one id, under way together, one giving only a name and the
\* other only a price, have both written: the record holds both new values
C19_Witness ==
  \E t, u \in Tasks :
    /\ t # u /\ nreq = 2
    /\ Update(t) /\ pc[t] = "inv_pending"
    /\ Update(u) /\ pc[u] = "inv_pending"
    /\ product_id[t] = product_id[u] /\ Stored(product_id[t])
    /\ update[t] = Some([name |-> Some("Tablet"), price |-> None])
    /\ update[u] = Some([name |-> None, price |-> Some(550)])
    /\ PRODUCTS_DB[product_id[t]].name = "Tablet"
    /\ PRODUCTS_DB[product_id[t]].price = 550

\* on_startup has run and left the handle unset
StartupFailed == phase # "init" /\ redis = None

\* C20: a startup that finds the server unreachable leaves the handle unset, and
\* the handle then stays unset whatever the server does; while it is unset no
\* request or background task is suspended in a probe, get, set or delete, none
\* holds a connection, the keyspace stays as it was, an invalidation task ends
\* in its first step, and a fetch of a stored id returns the store's record.
C20_StartupFailureDisablesCache ==
  /\ [][(phase = "init" /\ phase' # "init" /\ ~backendUp) => redis' = None]_vars
  /\ [][StartupFailed => redis' = None /\ cache' = cache]_vars
  /\ [](StartupFailed =>
          /\ cache = << >>
          /\ \A t \in Tasks :
               /\ pc[t] \notin {"get_ping", "get_cache", "get_set", "inv_delete"}
               /\ redis_conn[t] = None)
  /\ [][\A t \in Tasks :
          /\ (StartupFailed /\ pc[t] = "inv_pending" /\ pc'[t] # "inv_pending")
               => pc'[t] = "done"
          /\ (StartupFailed /\ FetchReturns(t) /\ Stored(product_id[t]))
               => response'[t] = Ok(PRODUCTS_DB[product_id[t]])]_vars

\* the startup failed and the server has come back since: a fetch was answered
\* from the store and an update's invalidation has ended, with nothing cached
C20_Witness ==
  \E t, u \in Tasks :
    /\ StartupFailed /\ backendUp /\ ~backendHung
    /\ Fetch(t) /\ pc[t] = "done" /\ response[t].status = 200
    /\ Update(u) /\ pc[u] = "done" /\ response[u].status = 200
    /\ product_id[t] = product_id[u]
    /\ response[t] = response[u]
    /\ cache = << >>

====
